---------------------------- MODULE Spec2Model ----------------------------
(***************************************************************************)
(* A model of awswrangler/s3/_select.py: the S3 Select range planner       *)
(* (_gen_scan_range), the event-stream decoder (_select_object_content),   *)
(* the range dispatcher (_paginate_stream), the eligibility gate           *)
(* (_select_query) and the orchestrator (select_query).                    *)
(*                                                                         *)
(* Four specifications share the variables: SpecPlanner (one run of the    *)
(* planner), SpecDecoder (one response stream cut into events),            *)
(* SpecPaginate (one _paginate_stream call, its decode calls followed      *)
(* event by event) and Spec (a select_query call, each decode call one     *)
(* step).  Each leaves the variables of the others at their idle values.   *)
(*                                                                         *)
(* Conventions.                                                            *)
(*  - An Optional[int] is a sequence: <<>> is None, <<n>> is the int n.    *)
(*  - A byte string is a sequence of byte values 0..255; a str is a        *)
(*    sequence of code points.  The byte alphabet of the model is          *)
(*      10 (newline), 34 (the double quote), 49 (the digit 1),             *)
(*      195 169 (the two bytes of U+00E9 in UTF-8).                        *)
(*  - A parsed JSON value is [t |-> "int" | "str", v |-> sequence].        *)
(*  - s3_additional_kwargs is None, and _path2list and size_objects are    *)
(*    collaborators: the first answers with a list of paths, the second    *)
(*    with a size, with no size, or with an exception.  The exception a    *)
(*    failed call raises is not told apart by kind ("CallError").          *)
(***************************************************************************)
EXTENDS Integers, Sequences, FiniteSets, TLC

VARIABLES
    \* a run of the range planner
    plan_obj_size,          \* obj_size
    plan_chunk_size,        \* scan_range_chunk_size, an Optional[int]
    plan_ranges,            \* the pairs the generator has yielded
    plan_pc,                \* "ready" | "exhausted"
    \* a run of the decoder on one response stream
    response_payload,       \* all the bytes the response carries
    response_rest,          \* the bytes not yet delivered in an event
    events_seen,            \* the number of events delivered
    partial_record,
    payload_records,
    decoder_pc,             \* "reading" | "returned" | "raised"
    \* a call of select_query
    input_serialization,
    compression,            \* "None" stands for None
    input_serialization_params,
    scan_range_chunk_size,  \* an Optional[int]
    use_threads,            \* <<>> is False; <<w>> is an int w, or True on a
                            \* machine where it resolves to w threads
    pc,                     \* "start" | "dispatch" | "aborting" | "done" | "raised"
    raised,                 \* the exception select_query ends with, or ""
    paths,                  \* the resolved object paths, as 1..n
    path2list_calls,        \* the number of path resolutions issued
    size_lookups,           \* the objects whose size has been looked up
    calls,                  \* per object, the remote filtering calls issued
    objects,                \* per object, the state of its _select_query call
    result,                 \* the tables handed to concat_tables
    \* a call of _paginate_stream on one object, event by event
    pg_use_threads,         \* use_threads, as above
    pg_obj_size,            \* what the size lookup answered, an Optional[int]
    pg_tasks,               \* per range, the _select_object_content call
    pg_completed,           \* the calls that returned, in the order they did
    pg_pc,                  \* "start" | "running" | "aborting" | "returned" | "raised"
    pg_tables               \* the list _paginate_stream returns

planner_vars == <<plan_obj_size, plan_chunk_size, plan_ranges, plan_pc>>

decoder_vars == <<response_payload, response_rest, events_seen,
                  partial_record, payload_records, decoder_pc>>

input_vars == <<input_serialization, compression, input_serialization_params,
                scan_range_chunk_size, use_threads>>

query_vars == <<input_vars, pc, raised, paths, path2list_calls, size_lookups,
                calls, objects, result>>

paginate_vars == <<pg_use_threads, pg_obj_size, pg_tasks, pg_completed, pg_pc,
                   pg_tables>>

vars == <<planner_vars, decoder_vars, query_vars, paginate_vars>>

\* ------------------------------------------------------------------------
\* Bounds of the model
\* ------------------------------------------------------------------------

\* Largest object size and chunk size the range planner is run on.
MaxPlanSize == 12
MaxPlanChunk == 5
\* Longest response payload (in bytes) fed to the decoder, and the number of
\* events a response stream may hold.
MaxPayloadLen == 5
MaxEvents == 4
\* Most objects a path resolves to, most worker threads, and the most bytes
\* the objects of one query hold together.
MaxObjects == 2
MaxWorkers == 2
MaxTotalSize == 4
\* Largest object (in bytes, and in ranges of one byte) a single
\* _paginate_stream call is followed on event by event.
MaxPaginateSize == 3

\* ------------------------------------------------------------------------
\* Python helpers
\* ------------------------------------------------------------------------

None == <<>>

Some(n) == <<n>>

Min(a, b) == IF a <= b THEN a ELSE b

\* A range that takes its stop value too.
RECURSIVE PyRange_inclusive(_, _, _)
PyRange_inclusive(start, stop, step) ==
    IF start > stop THEN <<>>
    ELSE <<start>> \o PyRange_inclusive(start + step, stop, step)

\* range(start, stop, step) for step > 0, as the list of its values.
RECURSIVE PyRange(_, _, _)
PyRange(start, stop, step) ==
    IF start >= stop THEN <<>>
    ELSE <<start>> \o PyRange(start + step, stop, step)

\* ------------------------------------------------------------------------
\* Range planner: _gen_scan_range
\* ------------------------------------------------------------------------

RANGE_CHUNK_SIZE == 1024 * 1024

\* A planner that takes a chunk size of 0 for the smallest chunk, one byte.
ChunkSizeOrDefault_zero_as_one(chunk) ==
    IF chunk = None THEN RANGE_CHUNK_SIZE
    ELSE IF chunk[1] = 0 THEN 1
    ELSE chunk[1]

\* `scan_range_chunk_size or _RANGE_CHUNK_SIZE`: None and 0 are falsy.
ChunkSizeOrDefault(chunk) ==
    IF chunk = None \/ chunk[1] = 0
    THEN RANGE_CHUNK_SIZE
    ELSE chunk[1]

\* A planner that does not truncate the last range to the object.
gen_scan_range_untruncated(obj_size, chunk) ==
    LET chunk_size == ChunkSizeOrDefault(chunk)
        starts == PyRange(0, obj_size, chunk_size)
    IN  [k \in 1..Len(starts) |-> <<starts[k], starts[k] + chunk_size>>]

\* The list of the (start, end) pairs the generator yields.
gen_scan_range(obj_size, chunk) ==
    LET chunk_size == ChunkSizeOrDefault(chunk)
        starts == PyRange(0, obj_size, chunk_size)
    IN  [k \in 1..Len(starts) |->
            <<starts[k], starts[k] + Min(chunk_size, obj_size - starts[k])>>]

\* ------------------------------------------------------------------------
\* Stream decoder: the loop of _select_object_content
\* ------------------------------------------------------------------------

Bytes == {10, 34, 49, 195, 169}

IsContinuation(b) == b >= 128 /\ b <= 191

IsLead2(b) == b >= 194 /\ b <= 223

\* bytes.decode(encoding="utf-8", errors="ignore") on the model's alphabet:
\* an ASCII byte is itself; a two-byte lead followed by a continuation byte is
\* one code point; a lead with no continuation after it (also at the end of
\* the data) and a stray continuation byte are dropped.
RECURSIVE decode_utf8_ignore(_)
decode_utf8_ignore(bs) ==
    IF bs = <<>> THEN <<>>
    ELSE LET b == Head(bs) IN
         IF b < 128 THEN <<b>> \o decode_utf8_ignore(Tail(bs))
         ELSE IF IsLead2(b) /\ Len(bs) >= 2 /\ IsContinuation(bs[2])
              THEN <<(b - 192) * 64 + (bs[2] - 128)>>
                       \o decode_utf8_ignore(SubSeq(bs, 3, Len(bs)))
              ELSE decode_utf8_ignore(Tail(bs))

\* str.split("\n"): the pieces between newlines, always at least one piece.
RECURSIVE split_newline(_)
split_newline(s) ==
    IF \A k \in 1..Len(s) : s[k] # 10 THEN <<s>>
    ELSE LET k == CHOOSE i \in 1..Len(s) :
                      s[i] = 10 /\ \A j \in 1..(i - 1) : s[j] # 10
         IN  <<SubSeq(s, 1, k - 1)>> \o split_newline(SubSeq(s, k + 1, Len(s)))

\* The integer written with n digits 1.
RECURSIVE Repunit(_)
Repunit(n) == IF n = 0 THEN 0 ELSE 10 * Repunit(n - 1) + 1

JsonError == [ok |-> FALSE, value |-> [t |-> "err", v |-> <<>>]]

\* A parser that takes the empty text for a value.
json_loads_empty_as_null(text) ==
    IF text = <<>>
    THEN [ok |-> TRUE, value |-> [t |-> "null", v |-> <<>>]]
    ELSE IF \A k \in 1..Len(text) : text[k] = 49
    THEN [ok |-> TRUE, value |-> [t |-> "int", v |-> <<Repunit(Len(text))>>]]
    ELSE IF /\ Len(text) >= 2
            /\ text[1] = 34
            /\ text[Len(text)] = 34
            /\ \A k \in 2..(Len(text) - 1) : text[k] \notin {34, 10}
         THEN [ok |-> TRUE,
               value |-> [t |-> "str", v |-> SubSeq(text, 2, Len(text) - 1)]]
         ELSE JsonError

\* json.loads on texts over the code points 34, 49, 233: a run of digits is a
\* number, a quoted run of non-quote characters is a string, anything else
\* (the empty text included) raises JSONDecodeError.
json_loads(text) ==
    IF Len(text) >= 1 /\ \A k \in 1..Len(text) : text[k] = 49
    THEN [ok |-> TRUE, value |-> [t |-> "int", v |-> <<Repunit(Len(text))>>]]
    ELSE IF /\ Len(text) >= 2
            /\ text[1] = 34
            /\ text[Len(text)] = 34
            /\ \A k \in 2..(Len(text) - 1) : text[k] \notin {34, 10}
         THEN [ok |-> TRUE,
               value |-> [t |-> "str", v |-> SubSeq(text, 2, Len(text) - 1)]]
         ELSE JsonError

\* An event of the response stream.
RecordsEvent(bs) == [kind |-> "Records", payload |-> bs]

OtherEvent == [kind |-> "Stats", payload |-> <<>>]

\* The decoder's state before the first event (lines 44-45).
DecoderStart == [partial_record |-> <<>>, payload_records |-> <<>>, raised |-> FALSE]

\* A decoder that forgets the carried fragment.
process_event_no_carry(st, event) ==
    IF st.raised \/ event.kind # "Records" THEN st
    ELSE LET records == split_newline(decode_utf8_ignore(event.payload))
             done == SubSeq(records, 1, Len(records) - 1)
             parsed == [k \in 1..Len(done) |-> json_loads(done[k])]
         IN  IF \E k \in 1..Len(parsed) : ~parsed[k].ok
             THEN [st EXCEPT !.raised = TRUE]
             ELSE [partial_record |-> records[Len(records)],
                   payload_records |-> st.payload_records
                        \o [k \in 1..Len(parsed) |-> parsed[k].value],
                   raised |-> FALSE]

\* A decoder that takes the last piece of an event for a record when it is
\* not empty.
process_event_flush_last(st, event) ==
    IF st.raised \/ event.kind # "Records" THEN st
    ELSE LET split == split_newline(decode_utf8_ignore(event.payload))
             records == [split EXCEPT ![1] = st.partial_record \o split[1]]
             done == IF records[Len(records)] = <<>>
                     THEN SubSeq(records, 1, Len(records) - 1)
                     ELSE records
             parsed == [k \in 1..Len(done) |-> json_loads(done[k])]
         IN  IF \E k \in 1..Len(parsed) : ~parsed[k].ok
             THEN [st EXCEPT !.raised = TRUE]
             ELSE [partial_record |-> <<>>,
                   payload_records |-> st.payload_records
                        \o [k \in 1..Len(parsed) |-> parsed[k].value],
                   raised |-> FALSE]

\* A decoder that puts the records of an event before the ones it has.
process_event_prepend(st, event) ==
    IF st.raised \/ event.kind # "Records" THEN st
    ELSE LET split == split_newline(decode_utf8_ignore(event.payload))
             records == [split EXCEPT ![1] = st.partial_record \o split[1]]
             done == SubSeq(records, 1, Len(records) - 1)
             parsed == [k \in 1..Len(done) |-> json_loads(done[k])]
         IN  IF \E k \in 1..Len(parsed) : ~parsed[k].ok
             THEN [st EXCEPT !.raised = TRUE]
             ELSE [partial_record |-> records[Len(records)],
                   payload_records |->
                        [k \in 1..Len(parsed) |-> parsed[k].value]
                            \o st.payload_records,
                   raised |-> FALSE]

\* One iteration of `for event in response["Payload"]` (lines 46-52).
process_event(st, event) ==
    IF st.raised \/ event.kind # "Records" THEN st
    ELSE LET split == split_newline(decode_utf8_ignore(event.payload))
             records == [split EXCEPT ![1] = st.partial_record \o split[1]]
             done == SubSeq(records, 1, Len(records) - 1)
             parsed == [k \in 1..Len(done) |-> json_loads(done[k])]
         IN  IF \E k \in 1..Len(parsed) : ~parsed[k].ok
             THEN [st EXCEPT !.raised = TRUE]
             ELSE [partial_record |-> records[Len(records)],
                   payload_records |-> st.payload_records
                        \o [k \in 1..Len(parsed) |-> parsed[k].value],
                   raised |-> FALSE]

\* The whole loop over a response stream given as a list of events.
RECURSIVE decode_from(_, _)
decode_from(st, events) ==
    IF events = <<>> THEN st
    ELSE decode_from(process_event(st, Head(events)), Tail(events))

decode_events(events) == decode_from(DecoderStart, events)

\* ------------------------------------------------------------------------
\* Specification of the range planner alone
\* ------------------------------------------------------------------------

PlannerIdle ==
    /\ plan_obj_size = 0
    /\ plan_chunk_size = None
    /\ plan_ranges = <<>>
    /\ plan_pc = "idle"

DecoderIdle ==
    /\ response_payload = <<>>
    /\ response_rest = <<>>
    /\ events_seen = 0
    /\ partial_record = <<>>
    /\ payload_records = <<>>
    /\ decoder_pc = "idle"

QueryIdle ==
    /\ input_serialization = ""
    /\ compression = "None"
    /\ input_serialization_params = [AllowQuotedRecordDelimiter |-> FALSE, Type |-> ""]
    /\ scan_range_chunk_size = None
    /\ use_threads = None
    /\ pc = "idle"
    /\ raised = ""
    /\ paths = {}
    /\ path2list_calls = 0
    /\ size_lookups = {}
    /\ calls = <<>>
    /\ objects = <<>>
    /\ result = <<>>

PaginateIdle ==
    /\ pg_use_threads = None
    /\ pg_obj_size = None
    /\ pg_tasks = <<>>
    /\ pg_completed = <<>>
    /\ pg_pc = "idle"
    /\ pg_tables = <<>>

\* The chunk sizes tried: None, 0, small ones, and the default itself.
PlanChunkSizes ==
    {None} \cup {Some(c) : c \in 0..MaxPlanChunk} \cup {Some(RANGE_CHUNK_SIZE)}

\* The object sizes tried: small ones, and multiples of the default chunk
\* size with and without a remainder.
PlanObjSizes ==
    (0..MaxPlanSize)
        \cup {k * RANGE_CHUNK_SIZE + r : k \in 1..MaxPlanChunk, r \in {0, 1}}

PlannerInit ==
    /\ plan_obj_size \in PlanObjSizes
    /\ plan_chunk_size \in PlanChunkSizes
    /\ (plan_obj_size > MaxPlanSize
            => ChunkSizeOrDefault(plan_chunk_size) = RANGE_CHUNK_SIZE)
    /\ plan_ranges = <<>>
    /\ plan_pc = "ready"
    /\ DecoderIdle
    /\ QueryIdle
    /\ PaginateIdle

\* list(_gen_scan_range(obj_size, scan_range_chunk_size))
PlanRanges ==
    /\ plan_pc = "ready"
    /\ plan_ranges' = gen_scan_range(plan_obj_size, plan_chunk_size)
    /\ plan_pc' = "exhausted"
    /\ UNCHANGED <<plan_obj_size, plan_chunk_size, decoder_vars, query_vars,
                   paginate_vars>>

PlannerNext == PlanRanges

SpecPlanner == PlannerInit /\ [][PlannerNext]_vars

\* ------------------------------------------------------------------------
\* Specification of the decoder alone: one response stream, cut into events
\* at arbitrary byte positions
\* ------------------------------------------------------------------------

Payloads == UNION {[1..n -> Bytes] : n \in 0..MaxPayloadLen}

DecoderInit ==
    /\ response_payload \in Payloads
    /\ response_rest = response_payload
    /\ events_seen = 0
    /\ partial_record = DecoderStart.partial_record
    /\ payload_records = DecoderStart.payload_records
    /\ decoder_pc = "reading"
    /\ PlannerIdle
    /\ QueryIdle
    /\ PaginateIdle

DecoderState ==
    [partial_record |-> partial_record, payload_records |-> payload_records,
     raised |-> FALSE]

\* The loop takes one event from the stream and processes it.
Receive(event, n) ==
    LET st == process_event(DecoderState, event) IN
    /\ events_seen' = events_seen + 1
    /\ response_rest' = SubSeq(response_rest, n + 1, Len(response_rest))
    /\ partial_record' = st.partial_record
    /\ payload_records' = st.payload_records
    /\ decoder_pc' = IF st.raised THEN "raised" ELSE "reading"
    /\ UNCHANGED <<response_payload, planner_vars, query_vars,
                   paginate_vars>>

\* A Records event carrying the next n bytes of the response (n may be 0).
ReceiveRecords ==
    /\ decoder_pc = "reading"
    /\ events_seen < MaxEvents
    /\ \E n \in 0..Len(response_rest) :
          /\ (events_seen = MaxEvents - 1 => n = Len(response_rest))
          /\ Receive(RecordsEvent(SubSeq(response_rest, 1, n)), n)

\* An event of another kind (Stats, Progress, End, ...).
ReceiveOther ==
    /\ decoder_pc = "reading"
    /\ events_seen < MaxEvents - 1
    /\ Receive(OtherEvent, 0)

\* The stream closes: line 53 returns the table of payload_records.
EndOfStream ==
    /\ decoder_pc = "reading"
    /\ response_rest = <<>>
    /\ decoder_pc' = "returned"
    /\ UNCHANGED <<response_payload, response_rest, events_seen,
                   partial_record, payload_records, planner_vars, query_vars,
                   paginate_vars>>

DecoderNext == ReceiveRecords \/ ReceiveOther \/ EndOfStream

SpecDecoder == DecoderInit /\ [][DecoderNext]_vars

\* ------------------------------------------------------------------------
\* select_query: validation, path resolution, per-object dispatch, merge
\* ------------------------------------------------------------------------

\* A validation that lets a compression through with any format.
ValidationError_no_combination(ser, comp) ==
    IF ser \notin {"CSV", "JSON", "Parquet"} THEN "InvalidArgumentValue"
    ELSE IF comp \notin {"None", "gzip", "bzip2"} THEN "InvalidCompression"
    ELSE ""

\* Lines 251-258: the exception the validation raises, or "".
ValidationError(ser, comp) ==
    IF ser \notin {"CSV", "JSON", "Parquet"} THEN "InvalidArgumentValue"
    ELSE IF comp \notin {"None", "gzip", "bzip2"} THEN "InvalidCompression"
    ELSE IF comp # "None" /\ ser \notin {"CSV", "JSON"}
         THEN "InvalidArgumentCombination"
         ELSE ""

\* A gate that does not look at the Type parameter.
ScanRangeNotSupported_ignoring_type(comp, params) ==
    \/ comp # "None"
    \/ params.AllowQuotedRecordDelimiter

\* Lines 126-132: any([compression, AllowQuotedRecordDelimiter, Type == "Document"]).
ScanRangeNotSupported(comp, params) ==
    \/ comp # "None"
    \/ params.AllowQuotedRecordDelimiter
    \/ params.Type = "Document"

\* compression.upper() if compression else "NONE" (line 116).
CompressionType(comp) ==
    CASE comp = "gzip" -> "GZIP"
      [] comp = "bzip2" -> "BZIP2"
      [] comp = "zip" -> "ZIP"
      [] OTHER -> "NONE"

\* Lines 108-121: the request descriptor of one object.
QueryArgs(path) ==
    [Key |-> path,
     Expression |-> "sql",
     ExpressionType |-> "SQL",
     InputFormat |-> input_serialization,
     InputParams |-> input_serialization_params,
     CompressionType |-> CompressionType(compression),
     OutputSerialization |-> "JSON"]

\* A call that rewrites the expression for the ranges after the first.
Request_rewriting_args(args, scan_range) ==
    [args |-> [args EXCEPT !.Expression =
                    IF scan_range = None \/ scan_range[1][1] = 0
                    THEN @ ELSE "sql'"],
     scan_range |-> scan_range]

\* Lines 38-42: the request sent with the descriptor args; scan_range is None
\* or <<(start, end)>>.
Request(args, scan_range) == [args |-> args, scan_range |-> scan_range]

\* The request of a call on an object, with the descriptor built for it.
RemoteCall(path, scan_range) == Request(QueryArgs(path), scan_range)

\* A unit of work of _paginate_stream: one _select_object_content call.
NewTask(scan_range, status) ==
    [scan_range |-> scan_range, status |-> status, table |-> <<>>]

\* Line 70 and the iterables of lines 74-79 and 85-90: one task per range.
PlannedTasks(obj_size) ==
    LET scan_ranges == gen_scan_range(obj_size, scan_range_chunk_size)
    IN  [k \in 1..Len(scan_ranges) |-> NewTask(Some(scan_ranges[k]), "pending")]

\* `use_threads is False` (line 72).
Sequential == use_threads = None

\* The threads of one executor: one per object list, one per _paginate_stream.
PoolSize == IF use_threads = None THEN 1 ELSE use_threads[1]

\* The response streams a remote filtering call may answer with.
Responses ==
    { <<OtherEvent>>,
      <<RecordsEvent(<<49>>), OtherEvent, RecordsEvent(<<49, 10, 49, 10>>)>>,
      <<RecordsEvent(<<34, 10>>)>> }

\* `table.schema` is truthy when the table was built from at least one record.
HasSchema(table) == table # <<>>

TasksIn(o, statuses) == {k \in 1..Len(objects[o].tasks) : objects[o].tasks[k].status \in statuses}

ObjectsIn(statuses) == {o \in paths : objects[o].status \in statuses}

\* The remote filtering calls in flight, over all objects.
InFlight == UNION {{<<o, k>> : k \in TasksIn(o, {"running"})} : o \in paths}

\* The tables of an object's tasks, in task order, each with the call it is of.
TaskTables(o) ==
    [k \in 1..Len(objects[o].tasks) |->
        [path |-> o, call |-> k, rows |-> objects[o].tasks[k].table]]

\* A dispatcher that loses the table of the last range.
ReturnedTables_last_lost(o) ==
    LET kept == SelectSeq(TaskTables(o), LAMBDA t : HasSchema(t.rows))
    IN  SubSeq(kept, 1, Len(kept) - 1)

\* Line 92 for a ranged object; line 135 returns the one table as it is.
ReturnedTables(o) ==
    IF objects[o].ranged
    THEN SelectSeq(TaskTables(o), LAMBDA t : HasSchema(t.rows))
    ELSE TaskTables(o)

RECURSIVE Flatten(_)
Flatten(lists) ==
    IF lists = <<>> THEN <<>> ELSE Head(lists) \o Flatten(Tail(lists))

\* The rows of the dataframe built from the merged tables.
RECURSIVE ConcatRows(_)
ConcatRows(tables) ==
    IF tables = <<>> THEN <<>> ELSE Head(tables).rows \o ConcatRows(Tail(tables))

InputSerializations == {"CSV", "JSON", "Parquet", "XML"}

Compressions == {"None", "gzip", "bzip2", "zip"}

\* The options tried with each format.
ParamsOf(ser) ==
    CASE ser = "CSV" ->
            {[AllowQuotedRecordDelimiter |-> q, Type |-> ""] : q \in BOOLEAN}
      [] ser = "JSON" ->
            {[AllowQuotedRecordDelimiter |-> FALSE, Type |-> t] : t \in {"Document", "Lines"}}
      [] OTHER -> {[AllowQuotedRecordDelimiter |-> FALSE, Type |-> ""]}

ChunkSizes == {None, Some(2)}

ThreadSettings == {None} \cup {Some(w) : w \in 1..MaxWorkers}

\* The bytes of the objects whose size is known.
RECURSIVE SizeSum(_)
SizeSum(S) ==
    IF S = {} THEN 0
    ELSE LET o == CHOOSE x \in S : TRUE
         IN  (IF objects[o].obj_size = None THEN 0 ELSE objects[o].obj_size[1])
                 + SizeSum(S \ {o})

\* A query of one object without threads and with the default chunk size is
\* also tried on an object of 5 MiB.
LargeObjectSizes ==
    IF use_threads = None /\ scan_range_chunk_size = None /\ Cardinality(paths) = 1
    THEN {Some(5 * RANGE_CHUNK_SIZE)}
    ELSE {}

\* What the size lookup answers: no size, or a size.
SizeAnswers ==
    {None} \cup {Some(n) : n \in 0..(MaxTotalSize - SizeSum(paths))}
           \cup LargeObjectSizes

Init ==
    /\ input_serialization \in InputSerializations
    /\ compression \in Compressions
    /\ input_serialization_params \in ParamsOf(input_serialization)
    /\ scan_range_chunk_size \in ChunkSizes
    /\ use_threads \in ThreadSettings
    /\ pc = "start"
    /\ raised = ""
    /\ paths = {}
    /\ path2list_calls = 0
    /\ size_lookups = {}
    /\ calls = <<>>
    /\ objects = <<>>
    /\ result = <<>>
    /\ PlannerIdle
    /\ DecoderIdle
    /\ PaginateIdle

NewObject == [status |-> "pending", ranged |-> FALSE, obj_size |-> None,
              args |-> None, tasks |-> <<>>, error |-> "", tables |-> <<>>]

\* A check that lets an empty list of paths through.
NoFilesFound_never(n) == n < 0

\* Line 270: len(paths) < 1.
NoFilesFound(n) == n < 1

\* Lines 251-258: validation fails.
RejectArguments ==
    /\ pc = "start"
    /\ ValidationError(input_serialization, compression) # ""
    /\ pc' = "raised"
    /\ raised' = ValidationError(input_serialization, compression)
    /\ UNCHANGED <<input_vars, paths, path2list_calls, size_lookups, calls,
                   objects, result, planner_vars, decoder_vars,
                   paginate_vars>>

\* Lines 260-271: validation passes, _path2list answers with n paths.
ResolvePaths ==
    /\ pc = "start"
    /\ ValidationError(input_serialization, compression) = ""
    /\ path2list_calls' = path2list_calls + 1
    /\ \E n \in 0..MaxObjects :
          /\ paths' = 1..n
          /\ objects' = [o \in 1..n |-> NewObject]
          /\ calls' = [o \in 1..n |-> <<>>]
          /\ IF NoFilesFound(n)
             THEN pc' = "raised" /\ raised' = "NoFilesFound"
             ELSE pc' = "dispatch" /\ raised' = ""
    /\ UNCHANGED <<input_vars, size_lookups, result, planner_vars, decoder_vars,
                   paginate_vars>>

\* The object list is served in order: by the calling thread one object after
\* the other, or by a pool of PoolSize threads.
MayStartObject(o) ==
    /\ pc = "dispatch"
    /\ objects[o].status = "pending"
    /\ \A j \in 1..(o - 1) : objects[j].status # "pending"
    /\ IF Sequential \/ PoolSize < 2
       THEN \A j \in 1..(o - 1) : objects[j].status = "returned"
       ELSE Cardinality(ObjectsIn({"running", "aborting"})) < PoolSize

\* _select_query on an object the gate sends to a single whole-object call
\* (line 135): the descriptor is built and the call is issued.
StartWholeObject(o) ==
    /\ MayStartObject(o)
    /\ ScanRangeNotSupported(compression, input_serialization_params)
    /\ objects' = [objects EXCEPT ![o] =
            [@ EXCEPT !.status = "running", !.ranged = FALSE,
                      !.args = Some(QueryArgs(o)),
                      !.tasks = <<NewTask(None, "running")>>]]
    /\ calls' = [calls EXCEPT ![o] = Append(@, RemoteCall(o, None))]
    /\ UNCHANGED <<input_vars, pc, raised, paths, path2list_calls, size_lookups,
                   result, planner_vars, decoder_vars,
                   paginate_vars>>

\* A dispatcher that issues a call for the object before it looks at the size.
StartRangedObject_call_before_check(o) ==
    /\ MayStartObject(o)
    /\ ~ScanRangeNotSupported(compression, input_serialization_params)
    /\ size_lookups' = size_lookups \cup {o}
    /\ \E obj_size \in SizeAnswers :
          /\ objects' = [objects EXCEPT ![o] =
                IF obj_size = None
                THEN [@ EXCEPT !.status = "failed", !.ranged = TRUE,
                               !.args = Some(QueryArgs(o)),
                               !.error = "InvalidArgumentValue"]
                ELSE [@ EXCEPT !.status = "running", !.ranged = TRUE,
                               !.args = Some(QueryArgs(o)),
                               !.obj_size = obj_size,
                               !.tasks = PlannedTasks(obj_size[1])]]
          /\ calls' = IF obj_size = None
                      THEN [calls EXCEPT ![o] = Append(@, RemoteCall(o, None))]
                      ELSE calls
    /\ UNCHANGED <<input_vars, pc, raised, paths, path2list_calls,
                   result, planner_vars, decoder_vars,
                   paginate_vars>>

\* _select_query on an object the gate sends to _paginate_stream: the
\* descriptor is built (lines 108-121), the size is looked up (lines 63-69)
\* and the ranges are planned (line 70).
StartRangedObject(o) ==
    /\ MayStartObject(o)
    /\ ~ScanRangeNotSupported(compression, input_serialization_params)
    /\ size_lookups' = size_lookups \cup {o}
    /\ \/ \E obj_size \in SizeAnswers :
            objects' = [objects EXCEPT ![o] =
                IF obj_size = None
                THEN [@ EXCEPT !.status = "failed", !.ranged = TRUE,
                               !.args = Some(QueryArgs(o)),
                               !.error = "InvalidArgumentValue"]
                ELSE [@ EXCEPT !.status = "running", !.ranged = TRUE,
                               !.args = Some(QueryArgs(o)),
                               !.obj_size = obj_size,
                               !.tasks = PlannedTasks(obj_size[1])]]
       \/ objects' = [objects EXCEPT ![o] =
                [@ EXCEPT !.status = "failed", !.ranged = TRUE,
                          !.args = Some(QueryArgs(o)),
                          !.error = "CallError"]]
    /\ UNCHANGED <<input_vars, pc, raised, paths, path2list_calls, calls,
                   result, planner_vars, decoder_vars,
                   paginate_vars>>

\* A dispatcher that starts the next call without waiting for anything.
MayStartCall_eager(o, k) == TRUE

\* The next range is served by the calling thread when the call before it
\* has returned (lines 73-80), or by a free thread of the object's pool
\* (lines 83-91).
MayStartCall(o, k) ==
    IF Sequential
    THEN \A j \in 1..(k - 1) : objects[o].tasks[j].status = "done"
    ELSE Cardinality(TasksIn(o, {"running"})) < PoolSize

\* The ranges are served in the order of submission.
StartCall(o) ==
    /\ o \in paths
    /\ objects[o].status \in {"running", "aborting"}
    /\ TasksIn(o, {"pending"}) # {}
    /\ LET k == CHOOSE i \in TasksIn(o, {"pending"}) :
                    \A j \in TasksIn(o, {"pending"}) : i <= j
       IN  /\ MayStartCall(o, k)
           /\ objects' = [objects EXCEPT ![o].tasks[k].status = "running"]
           /\ calls' = [calls EXCEPT ![o] =
                  Append(@, Request(objects[o].args[1], objects[o].tasks[k].scan_range))]
    /\ UNCHANGED <<input_vars, pc, raised, paths, path2list_calls, size_lookups,
                   result, planner_vars, decoder_vars,
                   paginate_vars>>

\* A call answers with a response stream, which is decoded (lines 44-53): the
\* call returns a table, or raises on a record that is not JSON.
CallAnswers(o, k) ==
    /\ o \in paths
    /\ k \in TasksIn(o, {"running"})
    /\ \E response \in Responses :
          LET st == decode_events(response) IN
          objects' = [objects EXCEPT ![o].tasks[k] =
              IF st.raised
              THEN [@ EXCEPT !.status = "failed"]
              ELSE [@ EXCEPT !.status = "done", !.table = st.payload_records]]
    /\ UNCHANGED <<input_vars, pc, raised, paths, path2list_calls, size_lookups,
                   calls, result, planner_vars, decoder_vars,
                   paginate_vars>>

\* A call fails remotely (network, permission, throttling).
CallFails(o, k) ==
    /\ o \in paths
    /\ k \in TasksIn(o, {"running"})
    /\ objects' = [objects EXCEPT ![o].tasks[k].status = "failed"]
    /\ UNCHANGED <<input_vars, pc, raised, paths, path2list_calls, size_lookups,
                   calls, result, planner_vars, decoder_vars,
                   paginate_vars>>

\* The thread collecting the results in range order meets a call that
\* raised: the calls not yet started are dropped.
AbortObject(o) ==
    /\ o \in paths
    /\ objects[o].status = "running"
    /\ \E k \in TasksIn(o, {"failed"}) :
          \A j \in 1..(k - 1) : objects[o].tasks[j].status = "done"
    /\ objects' = [objects EXCEPT ![o] =
          [@ EXCEPT !.status = "aborting",
                    !.tasks = [k \in 1..Len(@) |->
                        IF @[k].status = "pending"
                        THEN [@[k] EXCEPT !.status = "cancelled"]
                        ELSE @[k]]]]
    /\ UNCHANGED <<input_vars, pc, raised, paths, path2list_calls, size_lookups,
                   calls, result, planner_vars, decoder_vars,
                   paginate_vars>>

\* The pool has shut down (no call is running): the exception leaves
\* _select_query.
ObjectRaises(o) ==
    /\ o \in paths
    /\ objects[o].status = "aborting"
    /\ TasksIn(o, {"running", "pending"}) = {}
    /\ objects' = [objects EXCEPT ![o] =
          [@ EXCEPT !.status = "failed", !.error = "CallError"]]
    /\ UNCHANGED <<input_vars, pc, raised, paths, path2list_calls, size_lookups,
                   calls, result, planner_vars, decoder_vars,
                   paginate_vars>>

\* A collection of results that takes a call that raised for one that returned.
AllCallsReturned_or_raised(o) ==
    TasksIn(o, {"done", "failed"}) = 1..Len(objects[o].tasks)

\* list(...) of lines 73-80 and 84-91 has every call's table.
AllCallsReturned(o) == TasksIn(o, {"done"}) = 1..Len(objects[o].tasks)

\* Every call of the object has returned: _select_query returns its list.
ObjectReturns(o) ==
    /\ o \in paths
    /\ objects[o].status = "running"
    /\ AllCallsReturned(o)
    /\ objects' = [objects EXCEPT ![o] =
          [@ EXCEPT !.status = "returned", !.tables = ReturnedTables(o)]]
    /\ UNCHANGED <<input_vars, pc, raised, paths, path2list_calls, size_lookups,
                   calls, result, planner_vars, decoder_vars,
                   paginate_vars>>

\* The thread collecting the objects' lists in order meets an object that
\* raised: the objects not yet started are dropped.
AbortQuery ==
    /\ pc = "dispatch"
    /\ \E o \in ObjectsIn({"failed"}) :
          \A j \in 1..(o - 1) : objects[j].status = "returned"
    /\ pc' = "aborting"
    /\ objects' = [o \in paths |->
          IF objects[o].status = "pending"
          THEN [objects[o] EXCEPT !.status = "cancelled"]
          ELSE objects[o]]
    /\ UNCHANGED <<input_vars, raised, paths, path2list_calls, size_lookups,
                   calls, result, planner_vars, decoder_vars,
                   paginate_vars>>

\* No object is being served any more: the exception leaves select_query.
QueryRaises ==
    /\ pc = "aborting"
    /\ ObjectsIn({"running", "aborting", "pending"}) = {}
    /\ pc' = "raised"
    /\ raised' = LET o == CHOOSE i \in ObjectsIn({"failed"}) :
                              \A j \in ObjectsIn({"failed"}) : i <= j
                 IN  objects[o].error
    /\ UNCHANGED <<input_vars, paths, path2list_calls, size_lookups,
                   calls, objects, result, planner_vars, decoder_vars,
                   paginate_vars>>

\* concat_tables of a list of tables: pyarrow refuses an empty list.
ConcatTablesRaises(tables) == tables = <<>>

\* Lines 286-295: every object has returned; the lists are flattened and the
\* tables concatenated.
Merge ==
    /\ pc = "dispatch"
    /\ ObjectsIn({"returned"}) = paths
    /\ LET tables == Flatten([o \in 1..Cardinality(paths) |-> objects[o].tables])
       IN  IF ConcatTablesRaises(tables)
           THEN pc' = "raised" /\ raised' = "ArrowInvalid" /\ result' = <<>>
           ELSE pc' = "done" /\ raised' = "" /\ result' = tables
    /\ UNCHANGED <<input_vars, paths, path2list_calls, size_lookups,
                   calls, objects, planner_vars, decoder_vars,
                   paginate_vars>>

Next ==
    \/ RejectArguments
    \/ ResolvePaths
    \/ \E o \in paths : StartWholeObject(o)
    \/ \E o \in paths : StartRangedObject(o)
    \/ \E o \in paths : StartCall(o)
    \/ \E o \in paths : \E k \in 1..Len(objects[o].tasks) : CallAnswers(o, k)
    \/ \E o \in paths : \E k \in 1..Len(objects[o].tasks) : CallFails(o, k)
    \/ \E o \in paths : AbortObject(o)
    \/ \E o \in paths : ObjectRaises(o)
    \/ \E o \in paths : ObjectReturns(o)
    \/ AbortQuery
    \/ QueryRaises
    \/ Merge

Spec == Init /\ [][Next]_vars

\* ------------------------------------------------------------------------
\* Specification of _paginate_stream on one object, with every decode call
\* followed event by event
\* ------------------------------------------------------------------------

\* The response streams a range may be answered with: two whose record is cut
\* by an event boundary, one without a record, one with a record that is not
\* JSON.
PaginateResponses ==
    { <<RecordsEvent(<<49>>), RecordsEvent(<<49, 10>>)>>,
      <<RecordsEvent(<<34>>), RecordsEvent(<<34, 10>>)>>,
      <<OtherEvent>>,
      <<RecordsEvent(<<10>>)>> }

\* One _select_object_content call: its scan range, the stream the service
\* answers it with, the events not yet read, and the call's two locals.
NewCall(scan_range, response) ==
    [scan_range |-> scan_range, status |-> "pending",
     response |-> response, rest |-> response,
     partial_record |-> <<>>, payload_records |-> <<>>]

CallsIn(statuses) == {k \in 1..Len(pg_tasks) : pg_tasks[k].status \in statuses}

\* `use_threads is False` (line 72) and the pool's size (line 82).
PaginateSequential == pg_use_threads = None

PaginateCpus == pg_use_threads[1]

PaginateInit ==
    /\ pg_use_threads \in ThreadSettings
    /\ pg_obj_size = None
    /\ pg_tasks = <<>>
    /\ pg_completed = <<>>
    /\ pg_pc = "start"
    /\ pg_tables = <<>>
    /\ PlannerIdle
    /\ DecoderIdle
    /\ QueryIdle

\* Lines 63-70: the size lookup answers with no size (InvalidArgumentValue)
\* or with a size, and the ranges are planned, here in chunks of one byte.
LookUpSize ==
    /\ pg_pc = "start"
    /\ \/ /\ pg_pc' = "raised"
          /\ UNCHANGED <<pg_obj_size, pg_tasks>>
       \/ \E obj_size \in 0..MaxPaginateSize :
             LET scan_ranges == gen_scan_range(obj_size, Some(1)) IN
             \E responses \in [1..Len(scan_ranges) -> PaginateResponses] :
                /\ pg_obj_size' = Some(obj_size)
                /\ pg_tasks' = [k \in 1..Len(scan_ranges) |->
                                    NewCall(scan_ranges[k], responses[k])]
                /\ pg_pc' = "running"
    /\ UNCHANGED <<pg_use_threads, pg_completed, pg_tables,
                   planner_vars, decoder_vars, query_vars>>

\* The next range is served by the calling thread once the call before it
\* has returned (lines 73-80), or by a free thread of the pool (lines 83-91).
PaginateMayStart(k) ==
    IF PaginateSequential
    THEN \A j \in 1..(k - 1) : pg_tasks[j].status = "done"
    ELSE Cardinality(CallsIn({"running"})) < PaginateCpus

\* A call starts, in the order of the ranges: lines 36-45.
PaginateStartCall ==
    /\ pg_pc = "running"
    /\ CallsIn({"pending"}) # {}
    /\ LET k == CHOOSE i \in CallsIn({"pending"}) :
                    \A j \in CallsIn({"pending"}) : i <= j
       IN  /\ PaginateMayStart(k)
           /\ pg_tasks' = [pg_tasks EXCEPT ![k] =
                  [@ EXCEPT !.status = "running",
                            !.partial_record = DecoderStart.partial_record,
                            !.payload_records = DecoderStart.payload_records]]
    /\ UNCHANGED <<pg_use_threads, pg_obj_size, pg_completed, pg_pc, pg_tables,
                   planner_vars, decoder_vars, query_vars>>

\* A decoder whose calls all read the carried fragment of the first call.
WorkerState_shared_buffer(k) ==
    [partial_record |-> pg_tasks[1].partial_record,
     payload_records |-> pg_tasks[k].payload_records,
     raised |-> FALSE]

\* The locals of call k (lines 44-45).
WorkerState(k) ==
    [partial_record |-> pg_tasks[k].partial_record,
     payload_records |-> pg_tasks[k].payload_records,
     raised |-> FALSE]

\* Call k reads the next event of its stream (lines 46-52); a record that is
\* not JSON makes the call raise.
PaginateReceive(k) ==
    /\ k \in CallsIn({"running"})
    /\ pg_tasks[k].rest # <<>>
    /\ LET st == process_event(WorkerState(k), Head(pg_tasks[k].rest))
       IN  pg_tasks' = [pg_tasks EXCEPT ![k] =
              [@ EXCEPT !.rest = Tail(@),
                        !.partial_record = st.partial_record,
                        !.payload_records = st.payload_records,
                        !.status = IF st.raised THEN "failed" ELSE "running"]]
    /\ UNCHANGED <<pg_use_threads, pg_obj_size, pg_completed, pg_pc, pg_tables,
                   planner_vars, decoder_vars, query_vars>>

\* The stream of call k has ended: the call returns its table (line 53).
PaginateCallReturns(k) ==
    /\ k \in CallsIn({"running"})
    /\ pg_tasks[k].rest = <<>>
    /\ pg_tasks' = [pg_tasks EXCEPT ![k].status = "done"]
    /\ pg_completed' = Append(pg_completed, k)
    /\ UNCHANGED <<pg_use_threads, pg_obj_size, pg_pc, pg_tables,
                   planner_vars, decoder_vars, query_vars>>

\* The thread collecting the tables in range order meets a call that raised:
\* the calls not yet started are dropped.
PaginateAbort ==
    /\ pg_pc = "running"
    /\ \E k \in CallsIn({"failed"}) :
          \A j \in 1..(k - 1) : pg_tasks[j].status = "done"
    /\ pg_pc' = "aborting"
    /\ pg_tasks' = [k \in 1..Len(pg_tasks) |->
          IF pg_tasks[k].status = "pending"
          THEN [pg_tasks[k] EXCEPT !.status = "cancelled"]
          ELSE pg_tasks[k]]
    /\ UNCHANGED <<pg_use_threads, pg_obj_size, pg_completed, pg_tables,
                   planner_vars, decoder_vars, query_vars>>

\* The pool has shut down: the exception leaves _paginate_stream.
PaginateRaises ==
    /\ pg_pc = "aborting"
    /\ CallsIn({"running"}) = {}
    /\ pg_pc' = "raised"
    /\ UNCHANGED <<pg_use_threads, pg_obj_size, pg_tasks, pg_completed,
                   pg_tables, planner_vars, decoder_vars, query_vars>>

\* A collection that takes the tables in the order the calls returned in.
CollectedTables_as_completed ==
    [i \in 1..Len(pg_completed) |->
        [call |-> pg_completed[i],
         rows |-> pg_tasks[pg_completed[i]].payload_records]]

\* list(...) of lines 73-80 and 84-91: the tables in the order of the ranges,
\* each with the call it is of.
CollectedTables ==
    [k \in 1..Len(pg_tasks) |-> [call |-> k, rows |-> pg_tasks[k].payload_records]]

\* Every call has returned: line 92 keeps the tables with a schema.
PaginateReturns ==
    /\ pg_pc = "running"
    /\ CallsIn({"done"}) = 1..Len(pg_tasks)
    /\ pg_tables' = SelectSeq(CollectedTables, LAMBDA t : HasSchema(t.rows))
    /\ pg_pc' = "returned"
    /\ UNCHANGED <<pg_use_threads, pg_obj_size, pg_tasks, pg_completed,
                   planner_vars, decoder_vars, query_vars>>

PaginateNext ==
    \/ LookUpSize
    \/ PaginateStartCall
    \/ \E k \in 1..Len(pg_tasks) : PaginateReceive(k)
    \/ \E k \in 1..Len(pg_tasks) : PaginateCallReturns(k)
    \/ PaginateAbort
    \/ PaginateRaises
    \/ PaginateReturns

SpecPaginate == PaginateInit /\ [][PaginateNext]_vars

\* ------------------------------------------------------------------------
\* Properties
\* ------------------------------------------------------------------------

MiB == 1024 * 1024

\* C1: for every object size S >= 0 and chunk size C > 0 the planned ranges
\* are contiguous and non-overlapping: the first starts at 0, each starts
\* where the one before ended, the last ends at S, every range has a length
\* between 1 and C, and every range but the last has length exactly C (so
\* there is no range only when S = 0).
C1_RangesContiguous ==
    (plan_pc = "exhausted" /\ plan_chunk_size # None /\ plan_chunk_size[1] > 0) =>
        LET r == plan_ranges
            n == Len(plan_ranges)
            S == plan_obj_size
            C == plan_chunk_size[1]
        IN  /\ (n = 0) <=> (S = 0)
            /\ n > 0 => (r[1][1] = 0 /\ r[n][2] = S)
            /\ \A k \in 1..(n - 1) : r[k + 1][1] = r[k][2]
            /\ \A k \in 1..n : r[k][2] - r[k][1] >= 1 /\ r[k][2] - r[k][1] <= C
            /\ \A k \in 1..(n - 1) : r[k][2] - r[k][1] = C

\* C1's case: an object of 12 bytes in chunks of 5 is planned as three
\* ranges, the last one shorter.
C1_Witness ==
    /\ plan_pc = "exhausted"
    /\ plan_obj_size = 12
    /\ plan_chunk_size = Some(5)
    /\ plan_ranges = << <<0, 5>>, <<5, 10>>, <<10, 12>> >>

\* Whether the bytes are well-formed UTF-8 (on the model's alphabet).
ValidUtf8(bs) ==
    \A i \in 1..Len(bs) :
        /\ IsLead2(bs[i]) => (i < Len(bs) /\ IsContinuation(bs[i + 1]))
        /\ IsContinuation(bs[i]) => (i > 1 /\ IsLead2(bs[i - 1]))

\* Whether the bytes are newline-terminated JSON records and nothing else.
IsRecordPayload(bs) ==
    /\ ValidUtf8(bs)
    /\ bs # <<>> => bs[Len(bs)] = 10
    /\ LET pieces == split_newline(decode_utf8_ignore(bs))
       IN  \A k \in 1..(Len(pieces) - 1) : json_loads(pieces[k]).ok

\* C2: for a payload of newline-terminated JSON records, the decoder returns
\* the same list of records whether the payload arrives in one Records event
\* or cut at arbitrary byte positions into several.
C2_FragmentationIndependent ==
    (decoder_pc \in {"returned", "raised"} /\ IsRecordPayload(response_payload)) =>
        /\ decoder_pc = "returned"
        /\ payload_records =
              decode_events(<<RecordsEvent(response_payload)>>).payload_records

\* The condition of the gate, as the claim words it.
RangeSplittingIneligible ==
    \/ compression # "None"
    \/ input_serialization_params.AllowQuotedRecordDelimiter
    \/ input_serialization_params.Type = "Document"

Dispatched(o) == objects[o].status \in {"running", "aborting", "returned", "failed"}

\* C3: when compression is set, or AllowQuotedRecordDelimiter is enabled, or
\* Type is "Document", an object that _select_query has been called on has had
\* exactly one remote filtering call, without a scan range, and no object has
\* had a size lookup or a range planned.
C3_IneligibleSingleCall ==
    RangeSplittingIneligible =>
        /\ size_lookups = {}
        /\ \A o \in paths :
              /\ ~objects[o].ranged
              /\ objects[o].obj_size = None
              /\ Len(calls[o]) = (IF Dispatched(o) THEN 1 ELSE 0)
              /\ \A k \in 1..Len(calls[o]) : calls[o][k].scan_range = None
              /\ \A k \in 1..Len(objects[o].tasks) :
                    objects[o].tasks[k].scan_range = None

\* C3's case: an uncompressed JSON document has been queried with one call.
C3_Witness ==
    /\ compression = "None"
    /\ input_serialization_params.Type = "Document"
    /\ \E o \in paths :
          /\ objects[o].status = "returned"
          /\ calls[o] = <<RemoteCall(o, None)>>

RECURSIVE RowCount(_)
RowCount(tasks) ==
    IF tasks = <<>> THEN 0 ELSE Len(Head(tasks).table) + RowCount(Tail(tasks))

\* C4: when every range of a ranged object has returned a non-empty table,
\* the list _paginate_stream returns holds the table of each range exactly
\* once, so its rows are as many as the ranges' rows together; with and
\* without threads.
C4_MergeComplete ==
    \A o \in paths :
        (/\ objects[o].ranged
         /\ objects[o].status = "returned"
         /\ \A k \in 1..Len(objects[o].tasks) : objects[o].tasks[k].table # <<>>) =>
            LET tables == objects[o].tables
                tasks == objects[o].tasks
            IN  /\ Len(tables) = Len(tasks)
                /\ \A k \in 1..Len(tasks) :
                      /\ Cardinality({i \in 1..Len(tables) : tables[i].call = k}) = 1
                      /\ \A i \in 1..Len(tables) :
                            tables[i].call = k =>
                                tables[i].rows = tasks[k].table /\ tables[i].path = o
                /\ Len(ConcatRows(tables)) = RowCount(tasks)

\* C4's case: a pool has served the two ranges of an object, both non-empty.
C4_Witness ==
    /\ use_threads = Some(2)
    /\ \E o \in paths :
          /\ objects[o].ranged
          /\ objects[o].status = "returned"
          /\ Len(objects[o].tasks) = 2
          /\ \A k \in 1..2 : objects[o].tasks[k].table # <<>>
          /\ Len(objects[o].tables) = 2

\* The arguments the validation is to refuse, as the claim words them.
InvalidArguments ==
    \/ input_serialization \notin {"CSV", "JSON", "Parquet"}
    \/ compression \notin {"None", "gzip", "bzip2"}
    \/ (compression # "None" /\ input_serialization = "Parquet")

\* C5: with an input format outside CSV, JSON, Parquet, a compression
\* outside none, gzip, bzip2, or a compression with Parquet, select_query
\* ends with an invalid-argument exception, and never resolves a path, looks
\* up a size or issues a remote filtering call.
C5_FailFastValidation ==
    InvalidArguments =>
        /\ path2list_calls = 0
        /\ paths = {}
        /\ size_lookups = {}
        /\ calls = <<>>
        /\ pc \in {"start", "raised"}
        /\ pc = "raised" =>
              raised \in {"InvalidArgumentValue", "InvalidCompression",
                          "InvalidArgumentCombination"}
        /\ ENABLED Next <=> pc = "start"

\* C5's case: gzip with Parquet has been refused.
C5_Witness ==
    /\ input_serialization = "Parquet"
    /\ compression = "gzip"
    /\ pc = "raised"
    /\ raised = "InvalidArgumentCombination"

\* C6: when every object has been queried (with at least one decode call)
\* and every decode call returned a table without rows, select_query
\* completes with an empty dataframe and not with an exception, for ranged
\* objects and for whole objects.
C6_AllEmptyIsSuccess ==
    (/\ pc \in {"done", "raised"}
     /\ paths # {}
     /\ \A o \in paths :
           /\ objects[o].status = "returned"
           /\ objects[o].tasks # <<>>
           /\ \A k \in 1..Len(objects[o].tasks) : objects[o].tasks[k].table = <<>>) =>
        /\ pc = "done"
        /\ raised = ""
        /\ ConcatRows(result) = <<>>

AnyFailure ==
    \E o \in paths :
        objects[o].status = "failed" \/ TasksIn(o, {"failed"}) # {}

\* C7: once a decode call or a size lookup has failed, select_query never
\* returns a merged result: it cannot end but with an exception (until it has
\* raised, a call is in flight or a step is enabled), whatever the order the
\* threads run in.
C7_NoPartialSuccess ==
    AnyFailure =>
        /\ pc # "done"
        /\ result = <<>>
        /\ (pc # "raised" /\ InFlight = {}) =>
              ENABLED (QueryRaises \/ AbortQuery
                          \/ (\E o \in paths : AbortObject(o) \/ ObjectRaises(o))
                          \/ Next)

\* C7's case: one object has returned its tables, a call of another has
\* failed, and select_query has raised.
C7_Witness ==
    /\ pc = "raised"
    /\ \E o \in paths : objects[o].status = "returned" /\ objects[o].tables # <<>>
    /\ \E o \in paths : TasksIn(o, {"failed"}) # {}

\* The k-th range of an object of S bytes in chunks of C.
ExpectedRange(k, S, C) == <<(k - 1) * C, Min(k * C, S)>>

CeilDiv(S, C) == (S + C - 1) \div C

\* C8: without threads, a ranged object of S bytes with chunk size C is given
\* its calls in ascending range order, the k-th with the k-th range as scan
\* range, each started when the one before has returned, ceil(S/C) calls when
\* the object returns; 5 MiB in chunks of 1 MiB are five ranges.
C8_SequentialCalls ==
    /\ gen_scan_range(5 * MiB, Some(MiB)) =
          << <<0, MiB>>, <<MiB, 2 * MiB>>, <<2 * MiB, 3 * MiB>>,
             <<3 * MiB, 4 * MiB>>, <<4 * MiB, 5 * MiB>> >>
    /\ use_threads = None =>
          \A o \in paths :
                (objects[o].ranged /\ objects[o].obj_size # None) =>
                    LET S == objects[o].obj_size[1]
                        C == IF scan_range_chunk_size = None
                             THEN MiB ELSE scan_range_chunk_size[1]
                        issued == calls[o]
                    IN  /\ Len(issued) <= CeilDiv(S, C)
                        /\ \A k \in 1..Len(issued) :
                              /\ issued[k].scan_range = Some(ExpectedRange(k, S, C))
                              /\ issued[k].args.Key = o
                        /\ \A k \in TasksIn(o, {"running"}) :
                              /\ k = Len(issued)
                              /\ \A j \in 1..(k - 1) :
                                    objects[o].tasks[j].status = "done"
                        /\ objects[o].status = "returned" =>
                              Len(issued) = CeilDiv(S, C)

\* C8's case: without threads, a CSV object of 5 MiB has returned after five
\* calls, one per MiB.
C8_Witness ==
    /\ use_threads = None
    /\ input_serialization = "CSV"
    /\ paths = {1}
    /\ objects[1].status = "returned"
    /\ objects[1].obj_size = Some(5 * MiB)
    /\ [k \in 1..Len(calls[1]) |-> calls[1][k].scan_range[1]] =
          << <<0, MiB>>, <<MiB, 2 * MiB>>, <<2 * MiB, 3 * MiB>>,
             <<3 * MiB, 4 * MiB>>, <<4 * MiB, 5 * MiB>> >>

\* C9: the remote filtering calls in flight over all objects and ranges are
\* never more than the worker count, and never more than one without threads.
C9_BoundedInFlight ==
    Cardinality(InFlight) <= (IF use_threads = None THEN 1 ELSE use_threads[1])

\* C10: when path resolution returns no object, select_query ends with
\* NoFilesFound, and no size is looked up and no remote filtering call issued.
C10_NoFilesFound ==
    (path2list_calls > 0 /\ paths = {}) =>
        /\ pc = "raised"
        /\ raised = "NoFilesFound"
        /\ size_lookups = {}
        /\ calls = <<>>
        /\ result = <<>>
        /\ ~ENABLED Next

\* C10's case: the paths were resolved to an empty list.
C10_Witness ==
    /\ path2list_calls = 1
    /\ paths = {}
    /\ raised = "NoFilesFound"

\* C11: a ranged object whose size lookup answered with no size (and did not
\* raise) has failed with InvalidArgumentValue; no range was planned for it and
\* no remote filtering call was issued for it, then or later.
C11_UndefinedSizeFails ==
    \A o \in paths :
        (/\ o \in size_lookups
         /\ objects[o].obj_size = None
         /\ objects[o].error # "CallError") =>
            /\ objects[o].status = "failed"
            /\ objects[o].error = "InvalidArgumentValue"
            /\ objects[o].tasks = <<>>
            /\ calls[o] = <<>>

\* C11's case: the size lookup of an object gave no size, and select_query has
\* ended with the exception.
C11_Witness ==
    /\ pc = "raised"
    /\ raised = "InvalidArgumentValue"
    /\ \E o \in paths :
          /\ o \in size_lookups
          /\ objects[o].obj_size = None
          /\ objects[o].error = "InvalidArgumentValue"

\* The chunk size a query plans its ranges with.
QueryChunkSize ==
    IF scan_range_chunk_size = None THEN MiB ELSE scan_range_chunk_size[1]

\* C12: for every chunk size C > 0, an object of size 0 is planned as no range
\* and an object of size 0 < S < C as the single range [0, S) (the function is
\* gone through once, when the query starts); the dispatcher
\* issues no call for an object of size 0 and returns an empty list for it,
\* and issues the one call [0, S) for an object smaller than the chunk size.
C12_PlannerEdgeCases ==
    /\ pc = "start" =>
          \A C \in 1..MaxPlanChunk :
              /\ gen_scan_range(0, Some(C)) = <<>>
              /\ \A S \in 1..(C - 1) : gen_scan_range(S, Some(C)) = << <<0, S>> >>
    /\ \A o \in paths :
          (objects[o].ranged /\ objects[o].obj_size # None) =>
              LET S == objects[o].obj_size[1]
                  tasks == objects[o].tasks
              IN  /\ S = 0 =>
                        /\ tasks = <<>>
                        /\ calls[o] = <<>>
                        /\ objects[o].status \in {"running", "returned"}
                        /\ objects[o].status = "returned" => objects[o].tables = <<>>
                  /\ (0 < S /\ S < QueryChunkSize) =>
                        /\ [k \in 1..Len(tasks) |-> tasks[k].scan_range]
                               = <<Some(<<0, S>>)>>
                        /\ \A k \in 1..Len(calls[o]) :
                               calls[o][k] = RemoteCall(o, Some(<<0, S>>))
                        /\ Len(calls[o]) <= 1

\* C12's case: with a chunk size of 2, an object of size 0 has returned with
\* no call and no table, and an object of size 1 with the one call [0, 1).
C12_Witness ==
    /\ scan_range_chunk_size = Some(2)
    /\ paths = {1, 2}
    /\ objects[1].obj_size = Some(0)
    /\ objects[1].status = "returned"
    /\ calls[1] = <<>>
    /\ objects[1].tables = <<>>
    /\ objects[2].obj_size = Some(1)
    /\ objects[2].status = "returned"
    /\ calls[2] = <<RemoteCall(2, Some(<<0, 1>>))>>

\* The newline characters among the bytes.
NewlineCount(bs) == Cardinality({k \in 1..Len(bs) : bs[k] = 10})

\* The bytes of the response the events so far have carried.
Delivered ==
    SubSeq(response_payload, 1, Len(response_payload) - Len(response_rest))

\* C13: the records a decode call has collected are as many as the newlines
\* of the payloads it has read, so the table it returns has as many records as
\* the whole stream has newlines; what follows the last newline is in no
\* record, and it is not an error: a call raises only on a piece that a newline
\* terminates.
C13_EndOfStreamDiscard ==
    /\ decoder_pc \in {"reading", "returned"} =>
          Len(payload_records) = NewlineCount(Delivered)
    /\ decoder_pc = "returned" =>
          /\ response_rest = <<>>
          /\ Len(payload_records) = NewlineCount(response_payload)
    /\ decoder_pc = "raised" => Len(payload_records) < NewlineCount(Delivered)
    /\ (decoder_pc = "reading" /\ response_rest = <<>>) => ENABLED EndOfStream

\* C13's case: the stream 1\n11 has been read to its end in more than one
\* event; the call returned the record 1 alone, and 11 stayed in the buffer.
C13_Witness ==
    /\ decoder_pc = "returned"
    /\ events_seen >= 2
    /\ response_payload = <<49, 10, 49, 49>>
    /\ payload_records = <<[t |-> "int", v |-> <<1>>]>>
    /\ partial_record = <<49, 49>>

\* The text without the characters outside ASCII (the ones an event boundary
\* can make the decoder drop).
StripNonAscii(text) == SelectSeq(text, LAMBDA c : c < 128)

AsciiValue(value) ==
    IF value.t = "str" THEN [value EXCEPT !.v = StripNonAscii(@)] ELSE value

\* C14: the k-th record a decode call has collected is the record the k-th
\* newline of the stream terminates (compared up to the characters outside
\* ASCII), for every cut of the stream into events: the records are in the
\* order their terminating newlines arrive in.
C14_StreamOrder ==
    decoder_pc \in {"reading", "returned"} =>
        LET pieces == split_newline(Delivered)
            n == Len(pieces) - 1
        IN  /\ Len(payload_records) = n
            /\ \A k \in 1..n :
                  LET expected == json_loads(StripNonAscii(pieces[k]))
                  IN  /\ expected.ok
                      /\ AsciiValue(payload_records[k]) = expected.value

\* C14's case: the stream 1\n11\n has been read in three events, and the
\* call returned the records 1 and 11 in this order.
C14_Witness ==
    /\ decoder_pc = "returned"
    /\ events_seen = 3
    /\ response_payload = <<49, 10, 49, 49, 10>>
    /\ payload_records = <<[t |-> "int", v |-> <<1>>], [t |-> "int", v |-> <<11>>]>>

\* C15: whatever the interleaving of the calls' events, the locals of a call
\* are what its own stream, decoded alone up to the event it has reached, gives:
\* a call in flight carries its own fragment and its own records, a call that
\* returned returns the table of its whole stream decoded alone, and a call
\* raises only when its own stream does.
C15_DecoderIsolation ==
    \A k \in 1..Len(pg_tasks) :
        LET t == pg_tasks[k]
            consumed == SubSeq(t.response, 1, Len(t.response) - Len(t.rest))
            alone == decode_events(consumed)
        IN  /\ t.status \in {"running", "done"} =>
                  /\ ~alone.raised
                  /\ t.partial_record = alone.partial_record
                  /\ t.payload_records = alone.payload_records
            /\ t.status = "done" =>
                  /\ t.rest = <<>>
                  /\ t.payload_records = decode_events(t.response).payload_records
            /\ t.status = "failed" => alone.raised

\* C15's case: two calls are in flight in a pool of two threads, each between
\* two events of its stream with a fragment carried over, 1 in one and a
\* double quote in the other.
C15_Witness ==
    /\ pg_use_threads = Some(2)
    /\ CallsIn({"running"}) = {1, 2}
    /\ pg_tasks[1].partial_record = <<49>>
    /\ pg_tasks[2].partial_record = <<34>>
    /\ pg_tasks[1].rest # <<>>
    /\ pg_tasks[2].rest # <<>>

\* What the sequential code gives for the responses of the ranges: each stream
\* decoded in range order, the first failure raised, the empty tables dropped.
SequentialPaginate ==
    LET decoded == [k \in 1..Len(pg_tasks) |-> decode_events(pg_tasks[k].response)]
        all == [k \in 1..Len(pg_tasks) |->
                    [call |-> k, rows |-> decoded[k].payload_records]]
    IN  [raised |-> \E k \in 1..Len(pg_tasks) : decoded[k].raised,
         tables |-> SelectSeq(all, LAMBDA t : HasSchema(t.rows))]

\* C18: for the same ranges and responses, the list _paginate_stream returns
\* with threads is the list it returns without: the tables with a schema in
\* ascending range order, whatever the order the calls returned in; and it
\* raises with threads only when it raises without.
C18_SequentialConcurrentEquivalent ==
    /\ pg_pc = "returned" =>
          /\ ~SequentialPaginate.raised
          /\ pg_tables = SequentialPaginate.tables
          /\ \A i, j \in 1..Len(pg_tables) :
                i < j => pg_tables[i].call < pg_tables[j].call
    /\ (pg_pc = "raised" /\ pg_obj_size # None) => SequentialPaginate.raised

\* C18's case: in a pool of two threads the call of the second range returned
\* before the call of the first, and the list returned has the two tables,
\* with different records, in range order.
C18_Witness ==
    /\ pg_use_threads = Some(2)
    /\ pg_pc = "returned"
    /\ pg_completed = <<2, 1>>
    /\ Len(pg_tables) = 2
    /\ pg_tables[1].call = 1
    /\ pg_tables[1].rows # pg_tables[2].rows

\* Whether a text over the model's characters is a JSON value: a number (a
\* run of digits) or a string (quoted, with no quote inside).
IsJsonValue(text) ==
    \/ text # <<>> /\ \A k \in 1..Len(text) : text[k] = 49
    \/ /\ Len(text) >= 2
       /\ text[1] = 34
       /\ text[Len(text)] = 34
       /\ \A k \in 2..(Len(text) - 1) : text[k] # 34

\* The pieces a newline terminates once the event carrying the payload is put
\* after the carried fragment.
TerminatedPieces(payload) ==
    LET assembled == split_newline(partial_record \o decode_utf8_ignore(payload))
    IN  SubSeq(assembled, 1, Len(assembled) - 1)

\* A step of the decoder on an event: it raises exactly when a piece the
\* event terminates is not a JSON value, and then collects nothing; and a call
\* that raised stays so, it never returns a table.
MalformedIsHardErrorStep ==
    /\ (decoder_pc = "reading" /\ events_seen' = events_seen + 1) =>
          LET payload == SubSeq(response_rest, 1,
                                Len(response_rest) - Len(response_rest'))
              pieces == TerminatedPieces(payload)
              malformed == \E k \in 1..Len(pieces) : ~IsJsonValue(pieces[k])
          IN  /\ malformed <=> decoder_pc' = "raised"
              /\ malformed => payload_records' = payload_records
    /\ decoder_pc = "raised" => decoder_pc' = "raised"
    /\ decoder_pc' = "returned" => decoder_pc \in {"reading", "returned"}

C17_DescriptorImmutable ==
    \A o \in paths :
        /\ Dispatched(o) => objects[o].args = Some(QueryArgs(o))
        /\ ~Dispatched(o) => calls[o] = <<>>
        /\ \A k \in 1..Len(calls[o]) :
              /\ calls[o][k].args = objects[o].args[1]
              /\ calls[o][k].args.Key = o
              /\ calls[o][k].args.InputFormat = input_serialization
              /\ calls[o][k].args.InputParams = input_serialization_params
              /\ calls[o][k].args.CompressionType = CompressionType(compression)
        /\ \A j, k \in 1..Len(calls[o]) :
              /\ calls[o][j].args = calls[o][k].args
              /\ j # k => calls[o][j].scan_range # calls[o][k].scan_range

\* C17's case: a pool of two threads has served the two ranges of an object;
\* the two calls carried the same descriptor and different scan ranges.
C17_Witness ==
    /\ use_threads = Some(2)
    /\ \E o \in paths :
          /\ objects[o].status = "returned"
          /\ Len(calls[o]) = 2
          /\ calls[o][1].args = calls[o][2].args
          /\ calls[o][1].scan_range # calls[o][2].scan_range

\* A step of the decoder on an event whose payload has no newline: an event
\* without payload (of another kind, or a Records event with no byte) changes
\* neither the carried fragment nor the records; one with bytes puts its text
\* after the carried fragment and adds no record.
DecoderFrameStep ==
    (decoder_pc = "reading" /\ events_seen' = events_seen + 1) =>
        LET payload == SubSeq(response_rest, 1,
                              Len(response_rest) - Len(response_rest'))
        IN  /\ payload = <<>> =>
                  /\ partial_record' = partial_record
                  /\ payload_records' = payload_records
                  /\ decoder_pc' = "reading"
            /\ (\A k \in 1..Len(payload) : payload[k] # 10) =>
                  /\ partial_record' = partial_record \o decode_utf8_ignore(payload)
                  /\ payload_records' = payload_records
                  /\ decoder_pc' = "reading"

\* C19: an event that is not of kind Records and a Records event with an empty
\* payload leave the carried fragment and the collected records as they are;
\* a Records event whose payload has no newline only appends its text to the
\* carried fragment and adds no record.
C19_DecoderFrame == [][DecoderFrameStep]_vars

\* C19's case: three events have been read, one of them without payload, the
\* others carrying a double quote and a 1 with no newline; the fragment
\* carried is "1 and no record has been collected.
C19_Witness ==
    /\ decoder_pc = "reading"
    /\ events_seen = 3
    /\ Delivered = <<34, 49>>
    /\ partial_record = <<34, 49>>
    /\ payload_records = <<>>

\* C20: with no chunk size (None) and with a chunk size of 0 the planner
\* plans with 1,048,576 bytes: the ranges are those of an explicit chunk size
\* of 1,048,576, ceil(S / 1,048,576) of them, the k-th from (k - 1) MiB to
\* k MiB or to the end of the object; so a chunk size of 0 ends with a plan.
C20_DefaultChunkSize ==
    /\ RANGE_CHUNK_SIZE = 1048576
    /\ (plan_pc = "exhausted" /\ plan_chunk_size \in {None, Some(0)}) =>
          /\ plan_ranges = gen_scan_range(plan_obj_size, Some(1048576))
          /\ Len(plan_ranges) = CeilDiv(plan_obj_size, MiB)
          /\ \A k \in 1..Len(plan_ranges) :
                plan_ranges[k] = ExpectedRange(k, plan_obj_size, MiB)
    /\ plan_pc = "ready" => ENABLED PlanRanges

\* C20's case: with a chunk size of 0, an object of 2 MiB and one byte is
\* planned as three ranges.
C20_Witness ==
    /\ plan_pc = "exhausted"
    /\ plan_chunk_size = Some(0)
    /\ plan_obj_size = 2 * MiB + 1
    /\ plan_ranges = << <<0, MiB>>, <<MiB, 2 * MiB>>, <<2 * MiB, 2 * MiB + 1>> >>

============================================================================
